---- MODULE Spec2Model ----
(***************************************************************************)
(* A model of the Stookwijzer service: the Stookwijzer class of            *)
(* app/stookwijzer/stookwijzerapi.py and the /api/stookwijzer endpoint of  *)
(* app/main.py.                                                            *)
(*                                                                         *)
(* Two specifications share the variables:                                 *)
(*   Spec     one request served by get_stookwijzer_data (main.py);        *)
(*   SpecObj  one Stookwijzer object used directly: construction with any  *)
(*            coordinates, then any sequence of async_update calls.        *)
(*                                                                         *)
(* Python values are tagged records; exceptions are values of their own,   *)
(* and an operator that models a function returns Return(v) or Raise(e).   *)
(***************************************************************************)
EXTENDS Integers, Sequences, FiniteSets, TLC

VARIABLES
    hostTZ,            \* the time zone of the host process (TZ of the machine)
    now,               \* the wall clock datetime.now() reads
    pc,                \* position of the caller
    request,           \* latitude / longitude of the request
    coord_response,    \* what the coordinate service answered
    xy,                \* the pair async_transform_coordinates returned
    sw,                \* the Stookwijzer object (None before construction)
    feature_response,  \* what the feature service answered to the last update
    calls,             \* outbound requests issued so far, in order
    updates,           \* number of completed async_update calls on sw
    raised,            \* the exception the last async_update let through
    response           \* the response delivered to the caller

vars == <<hostTZ, now, pc, request, coord_response, xy, sw, feature_response,
          calls, updates, raised, response>>

\* ---------------------------------------------------------------- bounds

\* async_update calls made on one object under SpecObj
MaxUpdates == 2

\* ---------------------------------------------------------- Python values

None_ == [t |-> "None"]
PyStr(s) == [t |-> "str", s |-> s]
PyBool(b) == [t |-> "bool", b |-> b]
\* an int, as json.loads produces it
PyInt(n) == [t |-> "int", n |-> n]
\* a float, held in hundredths (every float of the model has at most two
\* fractional digits)
PyFloat(c) == [t |-> "float", c |-> c]
PyDict(d) == [t |-> "dict", d |-> d]
PyList(l) == [t |-> "list", l |-> l]

Exc(cls, msg) == [cls |-> cls, msg |-> msg]
HTTPException(status_code, detail) ==
    [cls |-> "HTTPException", status_code |-> status_code, detail |-> detail]

\* F(x), with x evaluated once: the value of x is bound to the parameter of F
Bind(x, F(_)) == CHOOSE r \in {F(v) : v \in {x}} : TRUE

Return(v) == [k |-> "return", v |-> v]
Raise(e) == [k |-> "raise", exc |-> e]

\* the classes for which isinstance(e, Exception) holds
ExceptionClasses ==
    {"HTTPException", "ValueError", "KeyError", "IndexError", "TypeError",
     "ClientError", "TimeoutError", "JSONDecodeError"}

\* bool(v) of a str or None
Truthy(v) ==
    CASE v.t = "None" -> FALSE
      [] v.t = "str" -> v.s # ""

\* ------------------------------------------------------------- str / int

DigitChars == <<"0", "1", "2", "3", "4", "5", "6", "7", "8", "9">>

IsDigit(c) == \E i \in 1..10 : DigitChars[i] = c

DigitValue(c) == (CHOOSE i \in 1..10 : DigitChars[i] = c) - 1

RECURSIVE IntToStr(_)
\* str(n) of an int n >= 0
IntToStr(n) ==
    IF n < 10 THEN DigitChars[n + 1]
    ELSE IntToStr(n \div 10) \o DigitChars[(n % 10) + 1]

\* str(v) of a scalar that json.loads produced
Str(v) ==
    CASE v.t = "str" -> v.s
      [] v.t = "int" -> IntToStr(v.n)
      [] v.t = "None" -> "None"
      [] v.t = "bool" -> IF v.b THEN "True" ELSE "False"

RECURSIVE DigitRun(_, _)
\* the number of consecutive digits of s from position i on
DigitRun(s, i) ==
    IF i <= Len(s) /\ IsDigit(SubSeq(s, i, i)) THEN 1 + DigitRun(s, i + 1) ELSE 0

RECURSIVE DigitsValue(_, _, _)
\* the value of the n digits of s that start at position i
DigitsValue(s, i, n) ==
    IF n = 0 THEN 0
    ELSE 10 * DigitsValue(s, i, n - 1) + DigitValue(SubSeq(s, i + n - 1, i + n - 1))

\* float(s) of a str: a plain decimal literal with at most two fractional
\* digits gives its value; the other strings of the model ("", "abc", "None")
\* are no float literals
ParseFloat(s) ==
    LET n == DigitRun(s, 1)
        f == IF n + 1 <= Len(s) /\ SubSeq(s, n + 1, n + 1) = "."
             THEN DigitRun(s, n + 2) ELSE 0
        whole == DigitsValue(s, 1, n)
        frac == IF f = 0 THEN 0
                ELSE IF f = 1 THEN 10 * DigitsValue(s, n + 2, 1)
                ELSE DigitsValue(s, n + 2, 2)
    IN  IF n >= 1 /\ f = 0 /\ Len(s) = n THEN Return(PyFloat(100 * whole))
        ELSE IF n >= 1 /\ f \in 1..2 /\ Len(s) = n + 1 + f
             THEN Return(PyFloat(100 * whole + frac))
        ELSE Raise(Exc("ValueError", "could not convert string to float"))

\* float(v)
Float(v) ==
    CASE v.t = "float" -> Return(v)
      [] v.t = "int" -> Return(PyFloat(100 * v.n))
      [] v.t = "str" -> ParseFloat(v.s)
      [] OTHER -> Raise(Exc("TypeError", "float() argument must be a string or a real number"))

\* round(f, 1): to the nearest tenth, a tie to the even tenth
Round1(f) ==
    LET t == f.c \div 10
        r == f.c % 10
    IN  PyFloat(10 * (IF r > 5 \/ (r = 5 /\ t % 2 = 1) THEN t + 1 ELSE t))

\* "{:.6f}".format(f) of a float f >= 0
Format6f(f) ==
    IntToStr(f.c \div 100) \o "." \o IntToStr((f.c % 100) \div 10)
        \o IntToStr(f.c % 10) \o "0000"

\* ------------------------------------------------------------ subscripts

\* v[name] for a str key
GetItemStr(v, name) ==
    IF v.t = "dict"
    THEN IF name \in DOMAIN v.d THEN Return(v.d[name])
         ELSE Raise(Exc("KeyError", name))
    ELSE Raise(Exc("TypeError", "indices must be integers"))

\* v[0]
GetItem0(v) ==
    CASE v.t = "list" ->
            IF Len(v.l) > 0 THEN Return(v.l[1])
            ELSE Raise(Exc("IndexError", "list index out of range"))
      [] v.t = "str" ->
            IF Len(v.s) > 0 THEN Return(PyStr(SubSeq(v.s, 1, 1)))
            ELSE Raise(Exc("IndexError", "string index out of range"))
      [] v.t = "dict" -> Raise(Exc("KeyError", "0"))
      [] OTHER -> Raise(Exc("TypeError", "object is not subscriptable"))

\* -------------------------------------------------------------- datetime

\* A naive datetime is [y, m, d, H, M]; an aware one has the field off too,
\* the UTC offset of its tzinfo in minutes.

Naive(y, m, d, H, M) == [y |-> y, m |-> m, d |-> d, H |-> H, M |-> M]

IsLeap(y) == (y % 4 = 0 /\ y % 100 # 0) \/ y % 400 = 0

DaysInMonth(y, m) ==
    IF m = 2 THEN (IF IsLeap(y) THEN 29 ELSE 28)
    ELSE IF m \in {4, 6, 9, 11} THEN 30 ELSE 31

\* days from 1970-01-01 to the civil date y-m-d (proleptic Gregorian)
DaysFromCivil(y, m, d) ==
    LET yy == IF m <= 2 THEN y - 1 ELSE y
        era == yy \div 400
        yoe == yy - era * 400
        mp == IF m > 2 THEN m - 3 ELSE m + 9
        doy == (153 * mp + 2) \div 5 + d - 1
        doe == yoe * 365 + yoe \div 4 - yoe \div 100 + doy
    IN  era * 146097 + doe - 719468

\* the civil date of a day count, the inverse of DaysFromCivil
CivilFromDays(z0) ==
    LET z == z0 + 719468
        era == z \div 146097
        doe == z - era * 146097
        yoe == (doe - doe \div 1460 + doe \div 36524 - doe \div 146096) \div 365
        doy == doe - (365 * yoe + yoe \div 4 - yoe \div 100)
        mp == (5 * doy + 2) \div 153
        d == doy - (153 * mp + 2) \div 5 + 1
        m == IF mp < 10 THEN mp + 3 ELSE mp - 9
        y == yoe + era * 400 + (IF m <= 2 THEN 1 ELSE 0)
    IN  [y |-> y, m |-> m, d |-> d]

\* the calendar fields of a datetime as minutes on the time line of its own
\* wall clock
WallMinutes(dt) == (DaysFromCivil(dt.y, dt.m, dt.d) * 24 + dt.H) * 60 + dt.M

\* the naive datetime of a wall-clock minute count
FromWallMinutes(w) ==
    Bind(CivilFromDays(w \div 1440),
         LAMBDA c : Naive(c.y, c.m, c.d, (w % 1440) \div 60, w % 60))

\* the instant of an aware datetime, in minutes since the epoch
Instant(dt) == WallMinutes(dt) - dt.off

\* the day of the last Sunday of a 31-day month (1970-01-01 was a Thursday)
LastSunday(y, m) == 31 - ((DaysFromCivil(y, m, 31) + 4) % 7)

\* Europe/Amsterdam: summer time runs from 01:00 UTC on the last Sunday of
\* March to 01:00 UTC on the last Sunday of October
DstStartUTC(y) == WallMinutes(Naive(y, 3, LastSunday(y, 3), 1, 0))
DstEndUTC(y) == WallMinutes(Naive(y, 10, LastSunday(y, 10), 1, 0))

\* utcoffset, in minutes, of a zone at the UTC minute u
OffsetAtUTC(tz, u) ==
    CASE tz = "UTC" -> 0
      [] tz = "Asia/Tokyo" -> 540
      [] tz = "Europe/Amsterdam" ->
            Bind(FromWallMinutes(u).y, LAMBDA y :
                IF DstStartUTC(y) <= u /\ u < DstEndUTC(y) THEN 120 ELSE 60)

\* utcoffset, in minutes, of a zone at the local wall-clock minute w (fold 0)
OffsetAtLocal(tz, w) ==
    CASE tz = "UTC" -> 0
      [] tz = "Asia/Tokyo" -> 540
      [] tz = "Europe/Amsterdam" ->
            Bind(FromWallMinutes(w).y, LAMBDA y :
                IF DstStartUTC(y) + 120 <= w /\ w < DstEndUTC(y) + 120
                THEN 120 ELSE 60)

\* dt.astimezone(tz) of a naive dt: dt is taken as local time of the host,
\* and the same instant is expressed in tz
AsTimezone(dt, host, tz) ==
    Bind(WallMinutes(dt), LAMBDA w :
    Bind(w - OffsetAtLocal(host, w), LAMBDA u :
    Bind(OffsetAtUTC(tz, u), LAMBDA off :
    Bind(FromWallMinutes(u + off), LAMBDA f :
        [y |-> f.y, m |-> f.m, d |-> f.d, H |-> f.H, M |-> f.M, off |-> off]))))

\* dt + timedelta(hours=h) of an aware dt: the wall clock moves, the tzinfo
\* (and so the offset) stays
AddHours(dt, h) ==
    Bind(FromWallMinutes(WallMinutes(dt) + 60 * h), LAMBDA f :
        [y |-> f.y, m |-> f.m, d |-> f.d, H |-> f.H, M |-> f.M, off |-> dt.off])

\* datetime.strptime(s, "%d-%m-%Y %H:%M"): one or two digits for the day, the
\* month, the hour and the minute, four for the year, each in its range, the
\* day within its month, and nothing left over
Strptime(s) ==
    LET bad == Raise(Exc("ValueError", "time data does not match format"))
        nd == DigitRun(s, 1)
        im == nd + 2
        nm == DigitRun(s, im)
        iy == im + nm + 1
        ny == DigitRun(s, iy)
        iH == iy + ny + 1
        nH == DigitRun(s, iH)
        iM == iH + nH + 1
        nM == DigitRun(s, iM)
        d == DigitsValue(s, 1, nd)
        m == DigitsValue(s, im, nm)
        y == DigitsValue(s, iy, ny)
        H == DigitsValue(s, iH, nH)
        M == DigitsValue(s, iM, nM)
    IN  IF /\ nd \in 1..2 /\ nm \in 1..2 /\ ny = 4 /\ nH \in 1..2 /\ nM \in 1..2
           /\ SubSeq(s, nd + 1, nd + 1) = "-"
           /\ SubSeq(s, im + nm, im + nm) = "-"
           /\ SubSeq(s, iy + ny, iy + ny) = " "
           /\ SubSeq(s, iH + nH, iH + nH) = ":"
           /\ Len(s) = iM + nM - 1
           /\ m \in 1..12 /\ y >= 1 /\ H \in 0..23 /\ M \in 0..59
           /\ d >= 1 /\ d <= DaysInMonth(y, m)
        THEN Return(Naive(y, m, d, H, M))
        ELSE bad

\* ----------------------------------------------------- class Stookwijzer

\* get_color
get_color(advice) ==
    IF advice = "0" THEN "code_yellow"
    ELSE IF advice = "1" THEN "code_orange"
    ELSE IF advice = "2" THEN "code_red"
    ELSE ""

\* get_property: str(self._stookwijzer["features"][0]["properties"][prop]),
\* and "" when a subscript raises KeyError, IndexError or TypeError
get_property(self, prop) ==
    LET caught == {"KeyError", "IndexError", "TypeError"}
        a == GetItemStr(self.stookwijzer, "features")
        b == IF a.k = "return" THEN GetItem0(a.v) ELSE a
        c == IF b.k = "return" THEN GetItemStr(b.v, "properties") ELSE b
        d == IF c.k = "return" THEN GetItemStr(c.v, prop) ELSE c
    IN  IF d.k = "return" THEN Return(Str(d.v))
        ELSE IF d.exc.cls \in caught THEN Return("")
        ELSE d

\* get_boundary_box
get_boundary_box(x, y) ==
    LET fx == Float(x)
        fy == Float(y)
        r == IF fx.k = "raise" THEN fx
             ELSE IF fy.k = "raise" THEN fy
             ELSE Return(PyStr(Format6f(fx.v) \o "%2C" \o Format6f(fy.v) \o "%2C"
                               \o Format6f(PyFloat(fx.v.c + 1000)) \o "%2C"
                               \o Format6f(PyFloat(fy.v.c + 1000))))
    IN  IF r.k = "raise" /\ r.exc.cls \in {"ValueError", "TypeError"}
        THEN Return(None_)
        ELSE r

\* __init__
Stookwijzer(x, y) ==
    [t |-> "Stookwijzer",
     boundary_box |-> get_boundary_box(x, y).v,
     advice |-> None_,
     alert |-> None_,
     last_updated |-> None_,
     stookwijzer |-> None_]

\* the properties advice, alert and last_updated
advice(self) == self.advice
alert(self) == self.alert
last_updated(self) == self.last_updated

\* the property windspeed_bft
windspeed_bft(self) == PyStr(get_property(self, "wind_bft").v)

\* the property windspeed_ms
windspeed_ms(self) ==
    LET windspeed == PyStr(get_property(self, "wind").v)
        f == Float(windspeed)
    IN  IF Truthy(windspeed)
        THEN (IF f.k = "return" THEN Return(Round1(f.v)) ELSE f)
        ELSE Return(windspeed)

\* the property lki
lki(self) == PyStr(get_property(self, "lki").v)

\* get_forecast_at_offset; the "datetime" entry is the aware datetime whose
\* fields isoformat() writes out
get_forecast_at_offset(self, runtime, offset, isAdvice) ==
    LET dt == AddHours(runtime, offset)
    IN  IF isAdvice
        THEN [datetime |-> dt,
              advice |-> get_color(get_property(self, "advies_" \o IntToStr(offset)).v)]
        ELSE [datetime |-> dt,
              alert |-> (get_property(self, "alert_" \o IntToStr(offset)).v = "1")]

\* a variant of ForecastOffsets that starts at the run time itself:
\* range(0, 24, 2)
ForecastOffsetsFromZero == [i \in 1..12 |-> 2 * (i - 1)]

\* range(2, 25, 2)
ForecastOffsets == [i \in 1..12 |-> 2 * i]

\* get_forecast_array
get_forecast_array(self, host, isAdvice) ==
    Bind(get_property(self, "model_runtime").v, LAMBDA runtime :
        IF runtime = "" THEN Return(None_)
        ELSE Bind(Strptime(runtime), LAMBDA dt :
            IF dt.k = "raise" THEN dt
            ELSE Bind(AsTimezone(dt.v, host, "Europe/Amsterdam"), LAMBDA localdt :
                Return(PyList([i \in 1..Len(ForecastOffsets) |->
                    get_forecast_at_offset(self, localdt, ForecastOffsets[i],
                                           isAdvice)])))))

\* the properties forecast_advice and forecast_alert
forecast_advice(self, host) == get_forecast_array(self, host, TRUE)
forecast_alert(self, host) == get_forecast_array(self, host, FALSE)

\* json.loads(text) of a response body: the body is either text that is no
\* JSON document, or the text of the JSON document v
JsonLoads(body) ==
    IF body.t = "json" THEN Return(body.v)
    ELSE Raise(Exc("JSONDecodeError", "Expecting value"))

\* session.get(...) followed by response.text(): the body, whatever the
\* status of the response (no status is read, and with allow_redirects=False
\* a 3xx response is handed over like any other)
SessionGetText(resp) ==
    CASE resp.kind = "error" -> Raise(Exc("ClientError", "Cannot connect to host"))
      [] resp.kind = "timeout" -> Raise(Exc("TimeoutError", ""))
      [] resp.kind = "http" -> Return(resp.body)

\* a variant of async_get_stookwijzer that asks a second time when the first
\* request fails
async_get_stookwijzer_retry(self, resp) ==
    LET text == SessionGetText(resp)
        r == IF text.k = "return" THEN JsonLoads(text.v) ELSE text
        call == [svc |-> "data.rivm.nl", bbox |-> self.boundary_box.s]
    IN  IF ~Truthy(self.boundary_box)
        THEN [ret |-> Return(None_), calls |-> <<>>]
        ELSE IF r.k = "raise"
             THEN [ret |-> Return(None_), calls |-> <<call, call>>]
        ELSE [ret |-> r, calls |-> <<call>>]

\* async_get_stookwijzer: ret is what it returns or raises, calls the
\* requests it issued
async_get_stookwijzer(self, resp) ==
    LET text == SessionGetText(resp)
        r == IF text.k = "return" THEN JsonLoads(text.v) ELSE text
    IN  IF ~Truthy(self.boundary_box)
        THEN [ret |-> Return(None_), calls |-> <<>>]
        ELSE [ret |-> IF r.k = "raise" /\ r.exc.cls \in ExceptionClasses
                      THEN Return(None_) ELSE r,
              calls |-> <<[svc |-> "data.rivm.nl", bbox |-> self.boundary_box.s]>>]

\* a variant of async_update that stores the colour before testing the advice
async_update_unguarded(self, resp, clock) ==
    LET got == async_get_stookwijzer(self, resp)
        held == [self EXCEPT !.stookwijzer = got.ret.v]
        adv == PyStr(get_property(held, "advies_0").v)
        coloured == [held EXCEPT !.advice = PyStr(get_color(adv.s))]
    IN  [ret |-> Return(None_),
         self |-> IF Truthy(adv)
                  THEN [coloured EXCEPT
                           !.alert = PyBool(get_property(held, "alert_0").v = "1"),
                           !.last_updated = [t |-> "datetime", clock |-> clock]]
                  ELSE coloured,
         calls |-> got.calls]

\* a variant of async_update that takes every "alert_0" but "0" for an alert
async_update_alert_not_zero(self, resp, clock) ==
    LET got == async_get_stookwijzer(self, resp)
        held == [self EXCEPT !.stookwijzer = got.ret.v]
        adv == PyStr(get_property(held, "advies_0").v)
    IN  [ret |-> Return(None_),
         self |-> IF Truthy(adv)
                  THEN [held EXCEPT
                           !.advice = PyStr(get_color(adv.s)),
                           !.alert = PyBool(get_property(held, "alert_0").v # "0"),
                           !.last_updated = [t |-> "datetime", clock |-> clock]]
                  ELSE held,
         calls |-> got.calls]

\* async_update, with clock the value datetime.now() gives
async_update(self, resp, clock) ==
    LET got == async_get_stookwijzer(self, resp)
        held == [self EXCEPT !.stookwijzer = got.ret.v]
        adv == PyStr(get_property(held, "advies_0").v)
    IN  IF got.ret.k = "raise"
        THEN [ret |-> got.ret, self |-> self, calls |-> got.calls]
        ELSE [ret |-> Return(None_),
              self |-> IF Truthy(adv)
                       THEN [held EXCEPT
                                !.advice = PyStr(get_color(adv.s)),
                                !.alert = PyBool(get_property(held, "alert_0").v = "1"),
                                !.last_updated = [t |-> "datetime", clock |-> clock]]
                       ELSE held,
              calls |-> got.calls]

\* async_transform_coordinates: ret is the pair it returns, calls the
\* requests it issued
async_transform_coordinates(latitude, longitude, resp) ==
    LET text == SessionGetText(resp)
        coordinates == IF text.k = "return" THEN JsonLoads(text.v) ELSE text
        cx == IF coordinates.k = "return" THEN GetItemStr(coordinates.v, "x")
              ELSE coordinates
        fx == IF cx.k = "return" THEN Float(cx.v) ELSE cx
        cy == IF fx.k = "return" THEN GetItemStr(coordinates.v, "y") ELSE fx
        fy == IF cy.k = "return" THEN Float(cy.v) ELSE cy
    IN  [ret |-> IF fy.k = "return" THEN Return(<<fx.v, fy.v>>)
                 ELSE IF fy.exc.cls \in ExceptionClasses
                      THEN Return(<<None_, None_>>)
                 ELSE fy,
         calls |-> <<[svc |-> "epsg.io", x |-> longitude, y |-> latitude]>>]

\* ------------------------------------------------------------ the inputs

Zones == {"Europe/Amsterdam", "UTC", "Asia/Tokyo"}

\* latitude / longitude of a request
Requests == {[latitude |-> 52, longitude |-> 5], [latitude |-> 53, longitude |-> 6]}

Absent == [t |-> "absent"]

\* the one-entry mapping name -> v, or no entry when the property is absent
Field(name, v) == IF v = Absent THEN <<>> ELSE name :> v

Advies0Values ==
    <<Absent, PyStr(""), PyStr("0"), PyStr("1"), PyStr("2"), PyStr("9"), PyInt(1)>>

Alert0Values == <<Absent, PyStr("0"), PyStr("1"), PyInt(1)>>

\* the rest of a feature's properties: the readings, the model run time and
\* which of the per-offset forecast properties are there
Profiles ==
    << [wind |-> Absent, wind_bft |-> Absent, lki |-> Absent,
        model_runtime |-> Absent, forecast |-> "none"],
       [wind |-> PyStr("4.27"), wind_bft |-> PyStr("3"), lki |-> PyStr("5"),
        model_runtime |-> PyStr("01-01-2024 00:00"), forecast |-> "all"],
       [wind |-> Absent, wind_bft |-> PyInt(2), lki |-> Absent,
        model_runtime |-> PyStr("30-03-2024 12:00"), forecast |-> "some"],
       [wind |-> PyStr("abc"), wind_bft |-> Absent, lki |-> PyInt(7),
        model_runtime |-> PyStr("2024-01-01 00:00"), forecast |-> "all"],
       [wind |-> PyInt(0), wind_bft |-> PyStr("0"), lki |-> PyStr("1"),
        model_runtime |-> PyStr("31-12-2024 23:30"), forecast |-> "none"],
       [wind |-> PyStr("6.4"), wind_bft |-> PyStr("4"), lki |-> Absent,
        model_runtime |-> PyStr(""), forecast |-> "some"] >>

\* the value of "advies_<k>" under a forecast pattern
ForecastAdvies(pattern, k) ==
    CASE pattern = "all" -> <<PyStr("0"), PyStr("1"), PyStr("2"), PyStr("9")>>[((k \div 2) % 4) + 1]
      [] pattern = "some" -> IF k = 2 THEN PyStr("2")
                             ELSE IF k = 24 THEN PyInt(0) ELSE Absent
      [] pattern = "none" -> Absent

\* the value of "alert_<k>" under a forecast pattern
ForecastAlert(pattern, k) ==
    CASE pattern = "all" -> IF (k \div 2) % 3 = 0 THEN PyStr("1") ELSE PyStr("0")
      [] pattern = "some" -> IF k = 4 THEN PyStr("1")
                             ELSE IF k = 6 THEN PyInt(1) ELSE Absent
      [] pattern = "none" -> Absent

RECURSIVE ForecastFields(_, _)
ForecastFields(pattern, k) ==
    IF k > 24 THEN <<>>
    ELSE Field("advies_" \o IntToStr(k), ForecastAdvies(pattern, k))
         @@ Field("alert_" \o IntToStr(k), ForecastAlert(pattern, k))
         @@ ForecastFields(pattern, k + 2)

\* a feature collection with one feature
Payload(a, b, p) ==
    LET q == Profiles[p]
        properties ==
            Field("advies_0", Advies0Values[a]) @@ Field("alert_0", Alert0Values[b])
            @@ Field("wind", q.wind) @@ Field("wind_bft", q.wind_bft)
            @@ Field("lki", q.lki) @@ Field("model_runtime", q.model_runtime)
            @@ ForecastFields(q.forecast, 2)
    IN  PyDict("type" :> PyStr("FeatureCollection")
               @@ "features" :> PyList(<<PyDict("type" :> PyStr("Feature")
                                                @@ "properties" :> PyDict(properties))>>))

\* JSON documents without a feature to read
OtherDocuments ==
    << PyDict("type" :> PyStr("FeatureCollection") @@ "features" :> PyList(<<>>)),
       PyDict("type" :> PyStr("FeatureCollection")),
       PyDict("features" :> PyList(<<PyDict("type" :> PyStr("Feature"))>>)),
       PyList(<<>>),
       PyStr("features"),
       None_ >>

TextBody == [t |-> "text"]
JsonBody(v) == [t |-> "json", v |-> v]
HttpResponse(status, body) == [kind |-> "http", status |-> status, body |-> body]
\* no response: the service is unreachable ("error"), did not answer in time
\* ("timeout"), or was not asked ("none")
NoResponse(kind) == [kind |-> kind]

\* the features the service sends: every current advice with every current
\* alert, and every profile with and without a current advice
PayloadChoices ==
    [n \in 1..(Len(Advies0Values) * Len(Alert0Values)) |->
        <<((n - 1) \div Len(Alert0Values)) + 1, ((n - 1) % Len(Alert0Values)) + 1, 2>>]
    \o [p \in 1..Len(Profiles) |-> <<4, 3, p>>]
    \o [p \in 1..Len(Profiles) |-> <<1, 3, p>>]

Payloads == [n \in 1..Len(PayloadChoices) |->
                Payload(PayloadChoices[n][1], PayloadChoices[n][2], PayloadChoices[n][3])]

\* the ways the feature service answers one request
FeatureResponses ==
    [n \in 1..Len(Payloads) |-> HttpResponse(200, JsonBody(Payloads[n]))]
    \o [n \in 1..Len(OtherDocuments) |-> HttpResponse(200, JsonBody(OtherDocuments[n]))]
    \o << HttpResponse(200, TextBody),
          HttpResponse(500, TextBody),
          HttpResponse(302, TextBody),
          HttpResponse(302, JsonBody(Payload(4, 3, 2))),
          HttpResponse(302, JsonBody(Payload(1, 1, 1))),
          NoResponse("error"),
          NoResponse("timeout") >>

\* the documents the coordinate service may send
CoordDocuments ==
    << PyDict("x" :> PyInt(100000) @@ "y" :> PyInt(400000)),
       PyDict("x" :> PyStr("155000.5") @@ "y" :> PyStr("463000.25")),
       PyDict("x" :> PyStr("abc") @@ "y" :> PyInt(400000)),
       PyDict("x" :> PyInt(100000)),
       PyDict("x" :> PyInt(100000) @@ "y" :> None_),
       PyDict("error" :> PyStr("bad request")),
       PyList(<<>>) >>

\* the ways the coordinate service answers one request
CoordResponses ==
    [n \in 1..Len(CoordDocuments) |-> HttpResponse(200, JsonBody(CoordDocuments[n]))]
    \o << HttpResponse(200, TextBody), NoResponse("error"), NoResponse("timeout") >>

\* the coordinates a direct caller of the constructor may pass
ConstructorArgs ==
    << <<PyFloat(10000000), PyFloat(40000000)>>,
       <<None_, None_>>,
       <<PyStr("abc"), PyFloat(40000000)>>,
       <<PyStr("155000"), PyInt(463000)>> >>

\* ------------------------------------------- get_stookwijzer_data (main.py)

\* str(e)
ExcStr(e) ==
    IF e.cls = "HTTPException" THEN IntToStr(e.status_code) \o ": " \o e.detail
    ELSE e.msg

\* "if x is None or y is None"
TransformFailed(p) == p[1] = None_ \/ p[2] = None_

\* "except Exception as e: raise HTTPException(status_code=500, detail=str(e))":
\* the exception that leaves the handler when e is raised inside its try block
ExceptException(e) ==
    IF e.cls \in ExceptionClasses THEN HTTPException(500, ExcStr(e)) ELSE e

\* the outcome r of the try block, as it leaves the handler
TryExcept(r) == IF r.k = "raise" THEN Raise(ExceptException(r.exc)) ELSE r

\* the response the route sends: the returned value with status 200, or the
\* status and detail of the HTTPException that left the handler
Render(r) ==
    IF r.k = "return" THEN [status_code |-> 200, body |-> r.v]
    ELSE IF r.exc.cls = "HTTPException"
         THEN [status_code |-> r.exc.status_code, detail |-> r.exc.detail]
    ELSE [status_code |-> 500, detail |-> "Internal Server Error"]

\* the dict response_data, its entries evaluated in order
response_data(self, host, req, p) ==
    LET ms == windspeed_ms(self)
        fadv == forecast_advice(self, host)
        falert == forecast_alert(self, host)
    IN  IF ms.k = "raise" THEN ms
        ELSE IF fadv.k = "raise" THEN fadv
        ELSE IF falert.k = "raise" THEN falert
        ELSE Return([advice |-> advice(self),
                     alert |-> alert(self),
                     windspeed_bft |-> windspeed_bft(self),
                     windspeed_ms |-> ms.v,
                     lki |-> lki(self),
                     forecast_advice |-> fadv.v,
                     forecast_alert |-> falert.v,
                     last_updated |-> last_updated(self),
                     coordinates |-> [original |-> req,
                                      transformed |-> [x |-> p[1], y |-> p[2]]]])

\* the handler up to the return of async_transform_coordinates
TransformCoordinates ==
    /\ pc = "start"
    /\ \E n \in 1..Len(CoordResponses) :
          LET resp == CoordResponses[n]
              r == async_transform_coordinates(request.latitude, request.longitude, resp)
          IN  /\ coord_response' = resp
              /\ calls' = calls \o r.calls
              /\ IF r.ret.k = "return"
                 THEN /\ xy' = r.ret.v
                      /\ pc' = "transformed"
                      /\ response' = response
                 ELSE /\ xy' = xy
                      /\ pc' = "done"
                      /\ response' = Render(TryExcept(r.ret))
    /\ UNCHANGED <<hostTZ, now, request, sw, feature_response, updates, raised>>

\* the transformation failed: HTTPException(400) is raised inside the try block
RaiseTransformFailed ==
    /\ pc = "transformed"
    /\ TransformFailed(xy)
    /\ response' = Render(TryExcept(Raise(
                       HTTPException(400, "Failed to transform coordinates"))))
    /\ pc' = "done"
    /\ UNCHANGED <<hostTZ, now, request, coord_response, xy, sw, feature_response,
                   calls, updates, raised>>

\* sw = Stookwijzer(session, x, y); await sw.async_update()
ConstructAndUpdate ==
    /\ pc = "transformed"
    /\ ~TransformFailed(xy)
    /\ \E n \in 1..Len(FeatureResponses) :
          LET resp == FeatureResponses[n]
              u == async_update(Stookwijzer(xy[1], xy[2]), resp, now + 1)
          IN  /\ feature_response' = (IF u.calls = <<>> THEN NoResponse("none") ELSE resp)
              /\ calls' = calls \o u.calls
              /\ sw' = u.self
              /\ IF u.ret.k = "return"
                 THEN /\ pc' = "updated"
                      /\ response' = response
                 ELSE /\ pc' = "done"
                      /\ response' = Render(TryExcept(u.ret))
    /\ now' = now + 1
    /\ updates' = updates + 1
    /\ UNCHANGED <<hostTZ, request, coord_response, xy, raised>>

\* no advice after the update: HTTPException(404) is raised inside the try block
RaiseNoData ==
    /\ pc = "updated"
    /\ advice(sw) = None_
    /\ response' = Render(TryExcept(Raise(
                       HTTPException(404, "No data available for these coordinates"))))
    /\ pc' = "done"
    /\ UNCHANGED <<hostTZ, now, request, coord_response, xy, sw, feature_response,
                   calls, updates, raised>>

\* response_data is built and returned
ReturnData ==
    /\ pc = "updated"
    /\ advice(sw) # None_
    /\ response' = Render(TryExcept(response_data(sw, hostTZ, request, xy)))
    /\ pc' = "done"
    /\ UNCHANGED <<hostTZ, now, request, coord_response, xy, sw, feature_response,
                   calls, updates, raised>>

Init ==
    /\ hostTZ \in Zones
    /\ now = 0
    /\ pc = "start"
    /\ request \in Requests
    /\ coord_response = NoResponse("none")
    /\ xy = <<None_, None_>>
    /\ sw = None_
    /\ feature_response = NoResponse("none")
    /\ calls = <<>>
    /\ updates = 0
    /\ raised = None_
    /\ response = None_

Next ==
    \/ TransformCoordinates
    \/ RaiseTransformFailed
    \/ ConstructAndUpdate
    \/ RaiseNoData
    \/ ReturnData

Spec == Init /\ [][Next]_vars

\* ------------------------------------------- a Stookwijzer object on its own

\* Stookwijzer(session, x, y), called with any coordinates
Construct ==
    /\ pc = "new"
    /\ \E c \in 1..Len(ConstructorArgs) :
          sw' = Stookwijzer(ConstructorArgs[c][1], ConstructorArgs[c][2])
    /\ pc' = "idle"
    /\ UNCHANGED <<hostTZ, now, request, coord_response, xy, feature_response,
                   calls, updates, raised, response>>

\* await sw.async_update(), any number of times
AsyncUpdate ==
    /\ pc = "idle"
    /\ updates < MaxUpdates
    /\ \E n \in 1..Len(FeatureResponses) :
          LET resp == FeatureResponses[n]
              u == async_update(sw, resp, now + 1)
          IN  /\ feature_response' = (IF u.calls = <<>> THEN NoResponse("none") ELSE resp)
              /\ calls' = u.calls
              /\ sw' = u.self
              /\ raised' = IF u.ret.k = "raise" THEN u.ret.exc ELSE None_
    /\ now' = now + 1
    /\ updates' = updates + 1
    /\ UNCHANGED <<hostTZ, pc, request, coord_response, xy, response>>

InitObj ==
    /\ hostTZ \in Zones
    /\ now = 0
    /\ pc = "new"
    /\ request \in Requests
    /\ coord_response = NoResponse("none")
    /\ xy = <<None_, None_>>
    /\ sw = None_
    /\ feature_response = NoResponse("none")
    /\ calls = <<>>
    /\ updates = 0
    /\ raised = None_
    /\ response = None_

NextObj ==
    \/ Construct
    \/ AsyncUpdate

SpecObj == InitObj /\ [][NextObj]_vars

\* ---------------------------------------------------- reading the inputs
\* What a response of a service holds, read off the response itself and not
\* through the code under test.

\* the properties of the first feature of a document, as a mapping (empty
\* when the document has no first feature with properties)
PayloadProperties(doc) ==
    IF /\ doc.t = "dict"
       /\ "features" \in DOMAIN doc.d
       /\ doc.d["features"].t = "list"
       /\ Len(doc.d["features"].l) > 0
       /\ doc.d["features"].l[1].t = "dict"
       /\ "properties" \in DOMAIN doc.d["features"].l[1].d
       /\ doc.d["features"].l[1].d["properties"].t = "dict"
    THEN doc.d["features"].l[1].d["properties"].d
    ELSE <<>>

HasProperty(doc, name) == name \in DOMAIN PayloadProperties(doc)

\* the text of a property, "" when it is absent
PropertyText(doc, name) ==
    IF HasProperty(doc, name) THEN Str(PayloadProperties(doc)[name]) ELSE ""

\* the property is there as the JSON string s
PropertyIsString(doc, name, s) ==
    HasProperty(doc, name) /\ PayloadProperties(doc)[name] = PyStr(s)

\* the document a response carries, None when it carries none
DocumentOf(resp) ==
    IF resp.kind = "http" /\ resp.body.t = "json" THEN resp.body.v ELSE None_

\* the feature service failed: unreachable, timed out, a redirect, or a body
\* that is no JSON
FeatureFailure(resp) ==
    \/ resp.kind \in {"error", "timeout"}
    \/ resp.kind = "http" /\ (resp.status \in 300..399 \/ resp.body.t = "text")

\* the coordinate service delivered numeric "x" and "y"
CoordSuccess(resp) ==
    /\ resp.kind = "http"
    /\ resp.body.t = "json"
    /\ resp.body.v.t = "dict"
    /\ {"x", "y"} \subseteq DOMAIN resp.body.v.d
    /\ Float(resp.body.v.d["x"]).k = "return"
    /\ Float(resp.body.v.d["y"]).k = "return"

\* the colour of a raw advisory code
ColorOf(code) ==
    CASE code = "0" -> "code_yellow"
      [] code = "1" -> "code_orange"
      [] code = "2" -> "code_red"
      [] OTHER -> ""

\* the naive dt read as wall-clock time of tz: its calendar fields kept, the
\* offset of tz added
Localize(dt, tz) ==
    [y |-> dt.y, m |-> dt.m, d |-> dt.d, H |-> dt.H, M |-> dt.M,
     off |-> OffsetAtLocal(tz, WallMinutes(dt))]

Constructed == sw # None_

\* r is a list of 12 entries, entry k stamped base + 2k hours (same offset,
\* ascending) and carrying the colour of "advies_<2k>" or the flag
\* "alert_<2k>" = "1" of doc
ForecastIs(r, base, doc, isAdvice) ==
    /\ r.k = "return"
    /\ r.v.t = "list"
    /\ Len(r.v.l) = 12
    /\ \A k \in 1..12 :
          /\ Instant(r.v.l[k].datetime) = Instant(base) + 120 * k
          /\ r.v.l[k].datetime.off = base.off
          /\ k > 1 => Instant(r.v.l[k - 1].datetime) < Instant(r.v.l[k].datetime)
          /\ IF isAdvice
             THEN r.v.l[k].advice
                      = ColorOf(PropertyText(doc, "advies_" \o IntToStr(2 * k)))
             ELSE r.v.l[k].alert
                      = (PropertyText(doc, "alert_" \o IntToStr(2 * k)) = "1")

CurrentAllNull == sw.advice = None_ /\ sw.alert = None_ /\ sw.last_updated = None_
CurrentAllSet == sw.advice # None_ /\ sw.alert # None_ /\ sw.last_updated # None_

\* ------------------------------------------------------------------ C1
\* C1: when the coordinate transformation returned its failure value, the
\* response delivered to the caller has status 400 with the detail "Failed to
\* transform coordinates".  (Refuted: the HTTPException(400) is raised inside
\* the try block, "except Exception" catches it and a 500 goes out.)
C1_TransformFailureIs400 ==
    (pc = "done" /\ (xy[1] = None_ \/ xy[2] = None_))
        => /\ response.status_code = 400
           /\ response.detail = "Failed to transform coordinates"

\* ------------------------------------------------------------------ C2
\* C2: when the transformation succeeded and the update left advice null, the
\* response delivered to the caller has status 404.  (Refuted: the
\* HTTPException(404) is caught by "except Exception" and a 500 goes out.)
C2_NoDataIs404 ==
    (pc = "done" /\ xy[1] # None_ /\ xy[2] # None_ /\ Constructed
        /\ sw.advice = None_)
        => response.status_code = 404

\* ------------------------------------------------------------------ C3
\* C3: on an object, after construction and any sequence of completed
\* async_update calls, advice, alert and last_updated are all null or all
\* non-null; and one update of a fresh object with a fetched payload that has
\* no "advies_0" leaves all three null.
C3_CurrentAllOrNothing ==
    Constructed =>
        /\ CurrentAllNull \/ CurrentAllSet
        /\ (updates = 1 /\ ~HasProperty(DocumentOf(feature_response), "advies_0"))
               => CurrentAllNull

\* a fresh object updated once with a fetched feature that lacks "advies_0"
\* (and has "alert_0"): all three current fields are null
C3_Witness ==
    /\ Constructed /\ updates = 1
    /\ feature_response.kind = "http" /\ feature_response.status = 200
    /\ HasProperty(DocumentOf(feature_response), "alert_0")
    /\ ~HasProperty(DocumentOf(feature_response), "advies_0")
    /\ sw.stookwijzer = DocumentOf(feature_response)
    /\ CurrentAllNull

\* ------------------------------------------------------------------ C4
\* C4: for every failure of the feature service (unreachable, timed out, a
\* redirect whatever its body, a body that is no JSON) async_get_stookwijzer
\* returns null without raising, and after async_update on a fresh object
\* advice, alert and last_updated are null and both forecast series are null.
\* (Refuted: the status of the response is never read, so the JSON body of a
\* redirect is parsed and used like any other.)
C4_FetchFailureLeavesAllNull ==
    (Constructed /\ updates = 1 /\ FeatureFailure(feature_response))
        => /\ raised = None_
           /\ sw.stookwijzer = None_
           /\ CurrentAllNull
           /\ forecast_advice(sw, hostTZ) = Return(None_)
           /\ forecast_alert(sw, hostTZ) = Return(None_)

\* ------------------------------------------------------------------ C5
\* C5 as claimed: after a completed update on any fetched payload, alert is
\* true if the payload's "alert_0" is exactly the string "1" and false
\* otherwise, also for a payload without "advies_0".  (Refuted: without a
\* non-empty "advies_0" the update does not touch alert.)
C5_Original ==
    (Constructed /\ updates >= 1 /\ feature_response.kind = "http"
        /\ feature_response.body.t = "json")
        => sw.alert = PyBool(PropertyIsString(DocumentOf(feature_response),
                                             "alert_0", "1"))

\* C5 as amended: an update whose fetched payload has a non-empty "advies_0"
\* (as text) sets alert to true if the text of "alert_0" is exactly "1" and to
\* false otherwise ("0", any other text, absent); any other update leaves
\* alert as it was (null on a fresh object).
C5_AlertFollowsAlert0 ==
    [][ updates' = updates + 1
          => IF PropertyText(DocumentOf(feature_response'), "advies_0") # ""
             THEN sw'.alert = PyBool(PropertyText(DocumentOf(feature_response'),
                                                  "alert_0") = "1")
             ELSE sw'.alert = sw.alert ]_vars

\* an update has set alert to true from a payload with "advies_0" and
\* "alert_0" = "1"
C5_Witness ==
    /\ Constructed /\ updates >= 1
    /\ sw.stookwijzer = DocumentOf(feature_response)
    /\ PropertyText(sw.stookwijzer, "advies_0") # ""
    /\ PropertyIsString(sw.stookwijzer, "alert_0", "1")
    /\ sw.alert = PyBool(TRUE)

\* ------------------------------------------------------------------ C6
\* C6: each of the readings windspeed_bft, windspeed_ms and lki is null when
\* its property is absent from the held payload, and a reading whose property
\* is there is derived from that property alone, whatever else is absent.
\* (Refuted: get_property gives "" for an absent property and the readings
\* hand that "" on; none of them ever is null.)
C6_AbsentReadingIsNull ==
    Constructed =>
        /\ ~HasProperty(sw.stookwijzer, "wind_bft") => windspeed_bft(sw) = None_
        /\ ~HasProperty(sw.stookwijzer, "wind") => windspeed_ms(sw) = Return(None_)
        /\ ~HasProperty(sw.stookwijzer, "lki") => lki(sw) = None_
        /\ HasProperty(sw.stookwijzer, "wind_bft")
              => windspeed_bft(sw) = PyStr(PropertyText(sw.stookwijzer, "wind_bft"))
        /\ HasProperty(sw.stookwijzer, "lki")
              => lki(sw) = PyStr(PropertyText(sw.stookwijzer, "lki"))
        /\ PropertyIsString(sw.stookwijzer, "wind", "4.27")
              => windspeed_ms(sw) = Return(PyFloat(430))

\* ------------------------------------------------------------------ C7
\* C7 as claimed: get_forecast_array, for either series, returns null when
\* "model_runtime" is absent from the held payload, and otherwise a list of
\* exactly 12 entries stamped localized runtime + 2, 4, ..., 24 hours in
\* ascending order, entry k carrying the colour of "advies_<2k>" or the flag
\* "alert_<2k>" = "1".  (Refuted: a "model_runtime" that is there but empty
\* gives null, and one that is not in the format makes strptime raise.)
C7_Original ==
    Constructed =>
        \A isAdvice \in BOOLEAN :
            IF ~HasProperty(sw.stookwijzer, "model_runtime")
            THEN get_forecast_array(sw, hostTZ, isAdvice) = Return(None_)
            ELSE ForecastIs(get_forecast_array(sw, hostTZ, isAdvice),
                            AsTimezone(Strptime(PropertyText(sw.stookwijzer,
                                                             "model_runtime")).v,
                                       hostTZ, "Europe/Amsterdam"),
                            sw.stookwijzer, isAdvice)

\* C7 as amended: get_forecast_array, for either series, returns null when
\* the text of "model_runtime" is empty (absent, or there and empty), raises
\* ValueError when that text is not a "%d-%m-%Y %H:%M" time, and otherwise
\* returns the list of exactly 12 entries described above, whichever of the
\* per-offset properties are missing.
C7_ForecastSeries ==
    Constructed =>
        \A isAdvice \in BOOLEAN :
            LET text == PropertyText(sw.stookwijzer, "model_runtime")
                r == get_forecast_array(sw, hostTZ, isAdvice)
            IN  IF text = "" THEN r = Return(None_)
                ELSE IF Strptime(text).k = "raise"
                     THEN r.k = "raise" /\ r.exc.cls = "ValueError"
                ELSE ForecastIs(r, AsTimezone(Strptime(text).v, hostTZ,
                                              "Europe/Amsterdam"),
                                sw.stookwijzer, isAdvice)

\* a held payload with a well-formed run time and most per-offset properties
\* missing: both series have their 12 entries
C7_Witness ==
    /\ Constructed
    /\ PropertyText(sw.stookwijzer, "model_runtime") = "30-03-2024 12:00"
    /\ ~HasProperty(sw.stookwijzer, "advies_4")
    /\ ~HasProperty(sw.stookwijzer, "alert_2")
    /\ Len(forecast_advice(sw, hostTZ).v.l) = 12
    /\ Len(forecast_alert(sw, hostTZ).v.l) = 12

\* ------------------------------------------------------------------ C8
\* C8: a request issues at most two outbound requests, each once: first the
\* one to the coordinate service, then the one to the feature service, the
\* latter only when the coordinate service delivered coordinates, and never
\* when the transformation failed or the boundary box is null.
C8_OutboundCalls ==
    /\ Len(calls) <= 2
    /\ pc = "start" => calls = <<>>
    /\ Len(calls) >= 1 => calls[1].svc = "epsg.io"
    /\ Len(calls) = 2 =>
          /\ calls[2].svc = "data.rivm.nl"
          /\ CoordSuccess(coord_response)
          /\ xy[1] # None_ /\ xy[2] # None_
          /\ Constructed /\ sw.boundary_box # None_
    /\ (pc # "start" /\ ~CoordSuccess(coord_response)) => Len(calls) = 1
    /\ pc \in {"updated", "done"} /\ CoordSuccess(coord_response) => Len(calls) = 2

\* a request that ended after both services were asked once, the feature
\* service having failed
C8_Witness ==
    /\ pc = "done"
    /\ Len(calls) = 2
    /\ feature_response.kind = "timeout"

\* C8 on an object used directly: an update of an object whose boundary box
\* is null asks the feature service nothing, any other update asks it once
C8_UpdateCalls ==
    (Constructed /\ updates >= 1) =>
        IF sw.boundary_box = None_
        THEN calls = <<>> /\ feature_response.kind = "none"
        ELSE Len(calls) = 1 /\ calls[1].svc = "data.rivm.nl"

\* ------------------------------------------------------------------ C9
\* C9: whatever the time zone of the host, the forecast base keeps the
\* calendar fields of "model_runtime" and only gains the Europe/Amsterdam
\* offset, so entry k of a series is stamped with those fields plus 2k hours.
\* (Refuted: astimezone reads the naive value as local time of the host and
\* converts it, which shifts the fields on any host not on Amsterdam time.)
C9_RuntimeFieldsKept ==
    (Constructed /\ Strptime(PropertyText(sw.stookwijzer, "model_runtime")).k = "return")
        => \A k \in 1..12 :
              forecast_alert(sw, hostTZ).v.l[k].datetime
                  = AddHours(Localize(Strptime(PropertyText(sw.stookwijzer,
                                                            "model_runtime")).v,
                                      "Europe/Amsterdam"), 2 * k)

\* ----------------------------------------------------------------- C10
\* C10: after every completed async_update, advice is non-null only if the
\* payload held after that update has a non-empty "advies_0".  (Refuted: an
\* update that fetches nothing, or a payload without "advies_0", replaces the
\* held payload and leaves the advice of an earlier update in place.)
C10_AdviceFromHeldPayload ==
    (Constructed /\ updates >= 1 /\ sw.advice # None_)
        => PropertyText(sw.stookwijzer, "advies_0") # ""

====
